---- MODULE Spec2Model ----
(***************************************************************************)
(* A model of the DEDEGO translation service (src/app.py): the glossary    *)
(* loader, the prompt builder, the OpenAI client adapter, the response     *)
(* normalizer and the translate / health handlers running on one asyncio   *)
(* event loop.                                                             *)
(*                                                                         *)
(* Text conventions.  A provider reply, a glossary string and a JSON       *)
(* string value are sequences of characters, each character a one-letter   *)
(* string; the grave accent cannot be written inside a TLA+ string, so     *)
(* that one character is written BQ.  A request text is run-length         *)
(* encoded (a sequence of <<character, count>> runs, adjacent runs of      *)
(* different characters), so that texts of 1000 and 1001 characters are    *)
(* ordinary values.  Korean detail messages are named by ASCII labels.     *)
(***************************************************************************)
EXTENDS Integers, Sequences, FiniteSets, TLC

\* ------------------------------------------------------------------------
\* Characters and Python string operations on character sequences
\* ------------------------------------------------------------------------

\* The grave accent character (U+0060).
BQ == "BQ"

\* Characters str.strip() removes that occur in the modelled alphabet.
PyWhitespace == {" ", "\n"}

\* Characters json's WHITESPACE regex skips that occur in the alphabet.
JsonWs == {" ", "\n"}

\* s[i..] of a sequence
Drop(s, n) == SubSeq(s, n + 1, Len(s))

\* str.startswith
StartsWith(s, pre) ==
    /\ Len(s) >= Len(pre)
    /\ SubSeq(s, 1, Len(pre)) = pre

RECURSIVE LStrip(_)
LStrip(s) ==
    IF s # <<>> /\ s[1] \in PyWhitespace THEN LStrip(Tail(s)) ELSE s

RECURSIVE RStrip(_)
RStrip(s) ==
    IF s # <<>> /\ s[Len(s)] \in PyWhitespace
    THEN RStrip(SubSeq(s, 1, Len(s) - 1))
    ELSE s

\* str.strip() with no argument
Strip(s) == RStrip(LStrip(s))

\* The least number of a non-empty set of numbers
Least(S) == CHOOSE i \in S : \A j \in S : i <= j

\* str.replace(old, ""): the leftmost non-overlapping occurrences are removed.
RECURSIVE ReplaceWithEmpty(_, _)
ReplaceWithEmpty(s, old) ==
    LET found == {i \in 1..(Len(s) - Len(old) + 1) :
                     SubSeq(s, i, i + Len(old) - 1) = old}
    IN IF found = {} THEN s
       ELSE SubSeq(s, 1, Least(found) - 1)
                \o ReplaceWithEmpty(Drop(s, Least(found) + Len(old) - 1), old)

\* ------------------------------------------------------------------------
\* json.loads on character sequences
\* ------------------------------------------------------------------------

\* A decoded JSON value.  t is the Python type of the value: "str", "dict",
\* "list", "int", "float" (NaN), "bool", "NoneType".  Every value carries all
\* fields so that any two values can be compared.
JV(t, s, keys, items) == [t |-> t, s |-> s, keys |-> keys, items |-> items]
JStr(s) == JV("str", s, <<>>, <<>>)
JNone == JV("NoneType", <<>>, <<>>, <<>>)
JTrue == JV("bool", <<"t", "r", "u", "e">>, <<>>, <<>>)
JNaN == JV("float", <<"N", "a", "N">>, <<>>, <<>>)
JInt(s) == JV("int", s, <<>>, <<>>)
JList(items) == JV("list", <<>>, <<>>, items)
\* a dict keeps its keys in insertion order; keys[i] maps to items[i]
JDict(keys, items) == JV("dict", <<>>, keys, items)

\* The result of a scan: the value and the index after it, or a failure
\* (json.JSONDecodeError).
ScanOk(v, p) == [ok |-> TRUE, v |-> v, p |-> p]
ScanFail == [ok |-> FALSE, v |-> JNone, p |-> 0]

CharAt(s, p) == IF p >= 1 /\ p <= Len(s) THEN s[p] ELSE "EOF"

Digits == {"1"}

\* WHITESPACE.match(s, p).end(): the first index from p on that holds no
\* whitespace
SkipWs(s, p) ==
    Least({i \in p..Len(s) : s[i] \notin JsonWs} \cup {Len(s) + 1})

\* py_scanstring with strict=True, from the index after the opening quote:
\* a control character inside the string is an error.
ScanString(s, p) ==
    LET quotes == {i \in p..Len(s) : s[i] = "\""}
    IN IF quotes = {} THEN ScanFail
       ELSE IF \E i \in p..(Least(quotes) - 1) : s[i] = "\n" THEN ScanFail
       ELSE ScanOk(JStr(SubSeq(s, p, Least(quotes) - 1)), Least(quotes) + 1)

\* the end of the digits that start at p
ScanDigits(s, p) ==
    Least({i \in p..Len(s) : s[i] \notin Digits} \cup {Len(s) + 1})

\* dict assignment d[key] = value: a repeated key keeps its place and takes
\* the later value.
RECURSIVE DictSet(_, _, _, _)
DictSet(keys, items, k, v) ==
    IF keys = <<>> THEN [keys |-> <<k>>, items |-> <<v>>]
    ELSE IF keys[1] = k THEN [keys |-> keys, items |-> <<v>> \o Tail(items)]
    ELSE LET rest == DictSet(Tail(keys), Tail(items), k, v)
         IN [keys |-> <<keys[1]>> \o rest.keys,
             items |-> <<items[1]>> \o rest.items]

RECURSIVE ScanOnce(_, _)
RECURSIVE ScanMembers(_, _, _, _)
RECURSIVE ScanElements(_, _, _)

\* JSONObject after the opening brace and the first key's opening quote:
\* key, colon, value, then a closing brace or a comma and the next key.
ScanMembers(s, p, keys, items) ==
    LET k == ScanString(s, p)
    IN IF ~k.ok THEN ScanFail
       ELSE LET c == SkipWs(s, k.p)
            IN IF CharAt(s, c) # ":" THEN ScanFail
               ELSE LET v == ScanOnce(s, SkipWs(s, c + 1))
                    IN IF ~v.ok THEN ScanFail
                       ELSE LET d == DictSet(keys, items, k.v.s, v.v)
                                e == SkipWs(s, v.p)
                            IN IF CharAt(s, e) = "}"
                               THEN ScanOk(JDict(d.keys, d.items), e + 1)
                               ELSE IF CharAt(s, e) # "," THEN ScanFail
                               ELSE LET q == SkipWs(s, e + 1)
                                    IN IF CharAt(s, q) # "\"" THEN ScanFail
                                       ELSE ScanMembers(s, q + 1, d.keys, d.items)

\* JSONArray after the opening bracket and leading whitespace: value, then a
\* closing bracket or a comma and the next value.
ScanElements(s, p, items) ==
    LET v == ScanOnce(s, p)
    IN IF ~v.ok THEN ScanFail
       ELSE LET e == SkipWs(s, v.p)
            IN IF CharAt(s, e) = "]"
               THEN ScanOk(JList(Append(items, v.v)), e + 1)
               ELSE IF CharAt(s, e) # "," THEN ScanFail
               ELSE ScanElements(s, SkipWs(s, e + 1), Append(items, v.v))

\* json.scanner.py_make_scanner._scan_once
ScanOnce(s, p) ==
    LET c == CharAt(s, p)
    IN IF c = "\"" THEN ScanString(s, p + 1)
       ELSE IF c = "{" THEN
            LET q == SkipWs(s, p + 1)
            IN IF CharAt(s, q) = "}" THEN ScanOk(JDict(<<>>, <<>>), q + 1)
               ELSE IF CharAt(s, q) # "\"" THEN ScanFail
               ELSE ScanMembers(s, q + 1, <<>>, <<>>)
       ELSE IF c = "[" THEN
            LET q == SkipWs(s, p + 1)
            IN IF CharAt(s, q) = "]" THEN ScanOk(JList(<<>>), q + 1)
               ELSE ScanElements(s, q, <<>>)
       ELSE IF c = "n" /\ StartsWith(Drop(s, p - 1), <<"n", "u", "l", "l">>)
            THEN ScanOk(JNone, p + 4)
       ELSE IF c = "t" /\ StartsWith(Drop(s, p - 1), <<"t", "r", "u", "e">>)
            THEN ScanOk(JTrue, p + 4)
       ELSE IF c \in Digits
            THEN ScanOk(JInt(SubSeq(s, p, ScanDigits(s, p) - 1)), ScanDigits(s, p))
       ELSE IF c = "N" /\ StartsWith(Drop(s, p - 1), <<"N", "a", "N">>)
            THEN ScanOk(JNaN, p + 3)
       ELSE ScanFail

\* json.loads(s): JSONDecoder.decode: leading whitespace, one value, trailing
\* whitespace, and nothing after it ("Extra data").
json_loads(s) ==
    LET r == ScanOnce(s, SkipWs(s, 1))
    IN IF ~r.ok THEN ScanFail
       ELSE IF SkipWs(s, r.p) # Len(s) + 1 THEN ScanFail
       ELSE r

\* ------------------------------------------------------------------------
\* Python value helpers
\* ------------------------------------------------------------------------

IsIn(keys, k) == \E i \in 1..Len(keys) : keys[i] = k

\* dict.get(key, default) / dict[key] on a decoded dict
DictGet(d, k, default) ==
    IF IsIn(d.keys, k)
    THEN d.items[CHOOSE i \in 1..Len(d.keys) : d.keys[i] = k]
    ELSE default

\* What iterating a Python value yields: a list its items, a dict its keys, a
\* str its characters; anything else is not iterable (TypeError).
Iterable(v) == v.t \in {"list", "dict", "str"}
IterValues(v) ==
    IF v.t = "list" THEN v.items
    ELSE IF v.t = "dict" THEN [i \in 1..Len(v.keys) |-> JStr(v.keys[i])]
    ELSE [i \in 1..Len(v.s) |-> JStr(<<v.s[i]>>)]

\* str(v) as an f-string renders it
PyStr(v) ==
    IF v.t \in {"str", "int"} THEN v.s
    ELSE IF v.t = "NoneType" THEN <<"N", "o", "n", "e">>
    ELSE IF v.t = "float" THEN <<"n", "a", "n">>
    ELSE IF v.t = "bool" THEN <<"T", "r", "u", "e">>
    ELSE <<"#repr">>

\* ------------------------------------------------------------------------
\* Glossary loader (load_pangyo_terms)
\* ------------------------------------------------------------------------

Q == "\""
Quoted(s) == <<Q>> \o s \o <<Q>>
Member(k, vtext) == Quoted(k) \o <<":">> \o vtext

RECURSIVE JoinWith(_, _)
JoinWith(parts, sep) ==
    IF parts = <<>> THEN <<>>
    ELSE IF Len(parts) = 1 THEN parts[1]
    ELSE parts[1] \o sep \o JoinWith(Tail(parts), sep)

ObjectText(members) == <<"{">> \o JoinWith(members, <<",">>) \o <<"}">>
ArrayText(elems) == <<"[">> \o JoinWith(elems, <<",">>) \o <<"]">>

kTerm == <<"t", "e", "r", "m">>
kDefinition == <<"d", "e", "f", "i", "n", "i", "t", "i", "o", "n">>
kMeaning == <<"m", "e", "a", "n", "i", "n", "g">>
kOriginal == <<"o", "r", "i", "g", "i", "n", "a", "l">>
kTranslated == <<"t", "r", "a", "n", "s", "l", "a", "t", "e", "d">>
kTerms == <<"t", "e", "r", "m", "s">>
kText == <<"t", "e", "x", "t">>

GlossaryEntryText(term, definition) ==
    ObjectText(<<Member(kTerm, Quoted(term)), Member(kDefinition, Quoted(definition))>>)

\* The states of the resource data.json at startup: what open() and
\* json.load() meet.  "text" is a readable UTF-8 file with that content.
DataFile(kind, content) == [kind |-> kind, content |-> content]
DataFiles ==
    << DataFile("absent", <<>>),
       DataFile("unreadable", <<>>),
       DataFile("undecodable", <<>>),
       DataFile("text", <<"a", " ", "b">>),
       DataFile("text", ArrayText(<<GlossaryEntryText(<<"a">>, <<"b">>)>>)),
       DataFile("text", ObjectText(<<Member(<<"a">>, Quoted(<<"b">>))>>)),
       DataFile("text", ArrayText(<<Quoted(<<"a">>)>>)),
       DataFile("text", ArrayText(<<ObjectText(<<Member(kTerm, Quoted(<<"a">>))>>)>>)),
       DataFile("text", ArrayText(<<GlossaryEntryText(<<"{">>, <<"b">>)>>)) >>

\* load_pangyo_terms: the value bound to pangyo_terms, or the exception that
\* leaves the function (only FileNotFoundError and json.JSONDecodeError are
\* caught).
Loaded(v) == [raised |-> "", v |-> v]
LoadRaised(exc) == [raised |-> exc, v |-> JNone]
load_pangyo_terms(f) ==
    IF f.kind = "absent" THEN Loaded(JList(<<>>))
    ELSE IF f.kind = "unreadable" THEN LoadRaised("PermissionError")
    ELSE IF f.kind = "undecodable" THEN LoadRaised("UnicodeDecodeError")
    ELSE IF json_loads(f.content).ok THEN Loaded(json_loads(f.content).v)
    ELSE Loaded(JList(<<>>))

\* ------------------------------------------------------------------------
\* Prompt builder (get_prompt_templates and str.format)
\* ------------------------------------------------------------------------

\* The value an expression yields, or the exception it raises.
Outcome(ok, exc, v) == [ok |-> ok, exc |-> exc, v |-> v]

\* One line of the glossary reference: f"- {term['term']}: {term['definition']}"
GlossaryLine(term) ==
    IF term.t # "dict" THEN Outcome(FALSE, "TypeError", <<>>)
    ELSE IF ~IsIn(term.keys, kTerm) \/ ~IsIn(term.keys, kDefinition)
    THEN Outcome(FALSE, "KeyError", <<>>)
    ELSE Outcome(TRUE, "",
                 <<"-", " ">> \o PyStr(DictGet(term, kTerm, JNone)) \o <<":", " ">>
                     \o PyStr(DictGet(term, kDefinition, JNone)))

RECURSIVE GlossaryLines(_)
GlossaryLines(terms) ==
    IF terms = <<>> THEN Outcome(TRUE, "", <<>>)
    ELSE LET l == GlossaryLine(terms[1])
             rest == GlossaryLines(Tail(terms))
         IN IF ~l.ok THEN l
            ELSE IF ~rest.ok THEN rest
            ELSE Outcome(TRUE, "", <<l.v>> \o rest.v)

\* terms_reference = "\n".join([... for term in terms_data])
TermsReference(terms_data) ==
    IF ~Iterable(terms_data) THEN Outcome(FALSE, "TypeError", <<>>)
    ELSE LET ls == GlossaryLines(IterValues(terms_data))
         IN IF ~ls.ok THEN ls ELSE Outcome(TRUE, "", JoinWith(ls.v, <<"\n">>))

\* The two templates after the f-string is evaluated: {{text}} has become
\* {text} and {{{{ has become {{.  A fixed paragraph of a template is one
\* token, written #name (none holds a brace of its own); #injection_guard is
\* the paragraph of lines 79-83.
TemplateToPangyo(ref) ==
    <<"#expert_role", "#task_to_pangyo", "#injection_guard", "#glossary_header">>
        \o ref
        \o <<"#input_header", "{">> \o kText \o <<"}">>
        \o <<"#rules_to_pangyo", "#format_header",
             "{", "{", "#shape_translated", "{", "{", "#shape_term", "}", "}",
             "#shape_close", "}", "}", "#json_only">>

TemplateToKorean(ref) ==
    <<"#expert_role", "#task_to_korean", "#glossary_header">>
        \o ref
        \o <<"#input_header", "{">> \o kText \o <<"}">>
        \o <<"#rules_to_korean", "#format_header",
             "{", "{", "#shape_translated", "{", "{", "#shape_term", "}", "}",
             "#shape_close", "}", "}", "#json_only">>

get_prompt_templates(terms_data) ==
    LET ref == TermsReference(terms_data)
    IN IF ~ref.ok THEN Outcome(FALSE, ref.exc, <<>>)
       ELSE Outcome(TRUE, "",
                    [to_pangyo |-> TemplateToPangyo(ref.v),
                     to_korean |-> TemplateToKorean(ref.v)])

\* A piece of a rendered prompt: a literal token, or the user's text.
Lit(tok) == [lit |-> tok, text |-> <<>>]
UserText(text) == [lit |-> "#text", text |-> text]

\* The index of the brace closing the replacement field opened before p
\* (nested braces counted), 0 when the template ends first.
RECURSIVE FieldEnd(_, _, _)
FieldEnd(tpl, p, depth) ==
    IF p > Len(tpl) THEN 0
    ELSE IF tpl[p] = "{" THEN FieldEnd(tpl, p + 1, depth + 1)
    ELSE IF tpl[p] = "}"
         THEN IF depth = 1 THEN p ELSE FieldEnd(tpl, p + 1, depth - 1)
    ELSE FieldEnd(tpl, p + 1, depth)

\* template.format(text=text): doubled braces are literal braces, {text} is
\* replaced by the text (which is not scanned again), any other field or a
\* single brace raises (KeyError, IndexError or ValueError).
Lits(toks) == [i \in 1..Len(toks) |-> Lit(toks[i])]

RECURSIVE Format(_, _, _, _)
Format(tpl, p, text, out) ==
    LET braces == {i \in p..Len(tpl) : tpl[i] \in {"{", "}"}}
        b == Least(braces)
        sofar == out \o Lits(SubSeq(tpl, p, b - 1))
    IN IF braces = {} THEN Outcome(TRUE, "", out \o Lits(SubSeq(tpl, p, Len(tpl))))
       ELSE IF CharAt(tpl, b + 1) = tpl[b]
       THEN Format(tpl, b + 2, text, Append(sofar, Lit(tpl[b])))
       ELSE IF tpl[b] = "}" THEN Outcome(FALSE, "ValueError", <<>>)
       ELSE LET e == FieldEnd(tpl, b + 1, 1)
            IN IF e = 0 THEN Outcome(FALSE, "ValueError", <<>>)
               ELSE IF SubSeq(tpl, b + 1, e - 1) = kText
               THEN Format(tpl, e + 1, text, Append(sofar, UserText(text)))
               ELSE Outcome(FALSE, "KeyError", <<>>)

\* Lines 181-182: the prompt for a request, or the exception raised.
BuildPromptFor(terms_data, direction, text) ==
    LET t == get_prompt_templates(terms_data)
    IN IF ~t.ok THEN Outcome(FALSE, t.exc, <<>>)
       ELSE Format(t.v[direction], 1, text, <<>>)

\* ------------------------------------------------------------------------
\* Request texts (run-length encoded) and the validation of lines 175-179
\* ------------------------------------------------------------------------

\* The limit of line 178.
MaxTextLen == 1000

\* The most runs a request text of the model has.
MaxRuns == 2

TextChars == {" ", "a"}
RunLens == {1, MaxTextLen - 1, MaxTextLen, MaxTextLen + 1}
Run(c, n) == [c |-> c, n |-> n]
Runs == {Run(c, n) : c \in TextChars, n \in RunLens}

Canonical(t) == \A i \in 1..(Len(t) - 1) : t[i].c # t[i + 1].c
Texts ==
    UNION {{t \in [1..k -> Runs] : Canonical(t)} : k \in 0..MaxRuns}

\* len(text)
RECURSIVE TextLen(_)
TextLen(t) == IF t = <<>> THEN 0 ELSE t[1].n + TextLen(Tail(t))

\* text.strip(): whole runs of whitespace go from both ends
RECURSIVE TextLStrip(_)
TextLStrip(t) ==
    IF t # <<>> /\ t[1].c \in PyWhitespace THEN TextLStrip(Tail(t)) ELSE t

RECURSIVE TextRStrip(_)
TextRStrip(t) ==
    IF t # <<>> /\ t[Len(t)].c \in PyWhitespace
    THEN TextRStrip(SubSeq(t, 1, Len(t) - 1))
    ELSE t

TextStrip(t) == TextRStrip(TextLStrip(t))

Directions == {"to_pangyo", "to_korean"}

\* Line 175 as it would read without the strip: not request.text
TextIsBlank_NoStrip(text) == text = <<>>
\* Line 175: not request.text.strip()
TextIsBlank(text) == TextStrip(text) = <<>>

\* Line 178: len(request.text) > 1000
TextTooLong(text) == TextLen(text) > MaxTextLen

\* ------------------------------------------------------------------------
\* Response normalizer (lines 194-217)
\* ------------------------------------------------------------------------

FenceJson == <<BQ, BQ, BQ, "j", "s", "o", "n">>
Fence == <<BQ, BQ, BQ>>

\* Lines 197-198
StripFence(response_text) ==
    IF StartsWith(response_text, FenceJson)
    THEN ReplaceWithEmpty(
             ReplaceWithEmpty(
                 ReplaceWithEmpty(response_text, FenceJson \o <<"\n">>),
                 Fence \o <<"\n">>),
             Fence)
    ELSE response_text

\* Lines 194-201: the text handed to json.loads, and what json.loads makes
\* of it.
ParseReply(content) == json_loads(StripFence(Strip(content)))

\* TermExplanation(**term): term must be a mapping; term and meaning are
\* required strings, original is a string defaulting to "", other keys are
\* ignored.  (The replies of the model hold only strings and null in these
\* fields.)
TermRecord(term, meaning, original) ==
    [term |-> term, meaning |-> meaning, original |-> original]
NoTerm == TermRecord(<<>>, <<>>, <<>>)

TermExplanation(term) ==
    IF term.t # "dict" THEN Outcome(FALSE, "TypeError", NoTerm)
    ELSE IF \/ ~IsIn(term.keys, kTerm)
            \/ ~IsIn(term.keys, kMeaning)
            \/ DictGet(term, kTerm, JNone).t # "str"
            \/ DictGet(term, kMeaning, JNone).t # "str"
            \/ DictGet(term, kOriginal, JStr(<<>>)).t # "str"
    THEN Outcome(FALSE, "ValidationError", NoTerm)
    ELSE Outcome(TRUE, "",
                 TermRecord(DictGet(term, kTerm, JNone).s,
                            DictGet(term, kMeaning, JNone).s,
                            DictGet(term, kOriginal, JStr(<<>>)).s))

\* [TermExplanation(**term) for term in ...]
RECURSIVE TermExplanations(_)
TermExplanations(elems) ==
    IF elems = <<>> THEN Outcome(TRUE, "", <<>>)
    ELSE LET one == TermExplanation(elems[1])
             rest == TermExplanations(Tail(elems))
         IN IF ~one.ok THEN Outcome(FALSE, one.exc, <<>>)
            ELSE IF ~rest.ok THEN rest
            ELSE Outcome(TRUE, "", <<one.v>> \o rest.v)

\* The iteration of result.get("terms", []) at line 215
TermsOf(result) ==
    LET terms == DictGet(result, kTerms, JList(<<>>))
    IN IF ~Iterable(terms) THEN Outcome(FALSE, "TypeError", <<>>)
       ELSE TermExplanations(IterValues(terms))

\* Lines 209-217, the fields taken from the provider's reply: translated and
\* terms, or the exception raised on the way.
Extract(result) ==
    IF result.t # "dict"
    THEN [ok |-> FALSE, exc |-> "AttributeError", translated |-> <<>>, terms |-> <<>>]
    ELSE LET tr == DictGet(result, kTranslated, JStr(<<>>))
             ts == TermsOf(result)
         IN IF ~ts.ok
            THEN [ok |-> FALSE, exc |-> ts.exc, translated |-> <<>>, terms |-> <<>>]
            ELSE IF tr.t # "str"
            THEN [ok |-> FALSE, exc |-> "ValidationError",
                  translated |-> <<>>, terms |-> <<>>]
            ELSE [ok |-> TRUE, exc |-> "", translated |-> tr.s, terms |-> ts.v]

\* ------------------------------------------------------------------------
\* HTTP responses
\* ------------------------------------------------------------------------

Response(status, detail, original, translated, direction, terms) ==
    [status |-> status, detail |-> detail, original |-> original,
     translated |-> translated, direction |-> direction, terms |-> terms]

NoResponse == Response(0, "", <<>>, <<>>, "", <<>>)

\* raise HTTPException(status_code, detail): FastAPI answers with the status
\* and {"detail": ...}.
HTTPException(status, detail) == Response(status, detail, <<>>, <<>>, "", <<>>)

\* Line 176 and line 179
EmptyTextError == HTTPException(400, "enter_text")
TooLongError == HTTPException(400, "text_too_long")
\* Lines 204-207
ParseError == HTTPException(500, "cannot_parse_llm_response")
\* Lines 221-223: any other exception, its message in the detail
GenericError(exc) == HTTPException(500, exc)

\* Line 210 as it would read echoing the trimmed text
ResponseOriginal_Trimmed(request) == TextStrip(request.text)
\* Line 210: original=request.text
ResponseOriginal(request) == request.text

\* Line 212: direction=request.direction
ResponseDirection(request) == request.direction

\* Lines 209-217
TranslateResponse(request, result) ==
    LET x == Extract(result)
    IN IF ~x.ok THEN GenericError(x.exc)
       ELSE Response(200, "", ResponseOriginal(request), x.translated,
                     ResponseDirection(request), x.terms)

\* Lines 162-164
HealthResponse == Response(200, "healthy", <<>>, <<>>, "", <<>>)

\* ------------------------------------------------------------------------
\* The provider: what one attempt of client.chat.completions.create meets
\* ------------------------------------------------------------------------

\* max_retries of line 47
MaxRetries == 2
\* One attempt too many
MaxAttempts_OneMore == 2 + MaxRetries
\* The first attempt and the retries
MaxAttempts == 1 + MaxRetries

\* Failures the client retries (timeout, connection error) and a failure it
\* raises at once (401).
TransientErrors == {"APITimeoutError", "APIConnectionError"}
FatalErrors == {"AuthenticationError"}

\* The most elements a terms list of a modelled reply has.
MaxTerms == 1

TermElementTexts ==
    { ObjectText(<<Member(kTerm, Quoted(<<"a">>)), Member(kMeaning, Quoted(<<"b">>)),
                   Member(kOriginal, Quoted(<<"c">>))>>),
      ObjectText(<<Member(kTerm, Quoted(<<"a">>)), Member(kMeaning, Quoted(<<"b">>))>>),
      ObjectText(<<Member(kTerm, Quoted(<<"a">>))>>),
      Quoted(<<"a">>) }

TermsValueTexts ==
    {ArrayText(es) : es \in UNION {[1..k -> TermElementTexts] : k \in 0..MaxTerms}}
        \cup { ObjectText(<<>>), Quoted(<<>>), <<"n", "u", "l", "l">> }

TranslatedValueTexts ==
    { Quoted(<<"a">>), Quoted(<<"a", BQ, BQ, BQ>>), <<"n", "u", "l", "l">> }

Optional(S) == {<<>>} \cup {<<m>> : m \in S}

\* Replies that are one JSON object: translated, terms and an extra member,
\* each present or not.
ObjectReplies ==
    { ObjectText(tr \o ts \o ex) :
        tr \in Optional({Member(kTranslated, v) : v \in TranslatedValueTexts}),
        ts \in Optional({Member(kTerms, v) : v \in TermsValueTexts}),
        ex \in Optional({Member(<<"x">>, <<"N", "a", "N">>)}) }

\* Replies that are JSON but no object, and replies that are no JSON.
OtherReplies ==
    { ArrayText(<<>>), Quoted(<<"a">>), <<"1">>, <<"n", "u", "l", "l">>,
      <<>>, <<"a", " ", "b">>,
      <<"{">> \o Member(kTranslated, Quoted(<<"a">>)),
      <<"{">> \o Member(kTranslated, Quoted(<<"a">>)) \o <<",", "}">> }

\* ```json newline R newline ```
Fenced(R) == FenceJson \o <<"\n">> \o R \o <<"\n">> \o Fence

Replies ==
    ObjectReplies \cup OtherReplies
        \cup {Fenced(R) : R \in ObjectReplies \cup OtherReplies}
        \cup {<<" ", "\n">> \o R \o <<"\n">> : R \in OtherReplies}

\* message.content: a string, or None
Content(text) == [has |-> TRUE, text |-> text]
NoContent == [has |-> FALSE, text |-> <<>>]

\* ------------------------------------------------------------------------
\* The service
\* ------------------------------------------------------------------------

\* The clients that may have a request in flight.
MaxClients == 2
Clients == 1..MaxClients

VARIABLES
    data_json,      \* the resource data.json at startup
    server,         \* "starting", "running", or "crashed" (import raised)
    pangyo_terms,   \* the module global of line 27
    loop,           \* the client whose handler runs on the event loop, or 0
    pc,             \* per client: where its request is
    kind,           \* per client: "translate" or "health"
    request,        \* per client: the TranslateRequest
    prompt,         \* per client: the prompt sent to the provider
    dispatches,     \* per client: calls of client.chat.completions.create
    attempts,       \* per client: HTTP attempts the client library made
    reply,          \* per client: message.content of the completion
    result,         \* per client: what json.loads returned
    response        \* per client: the HTTP response

vars == <<data_json, server, pangyo_terms, loop, pc, kind, request, prompt,
          dispatches, attempts, reply, result, response>>

NoRequest == [text |-> <<>>, direction |-> ""]

InitClients ==
    /\ loop = 0
    /\ pc = [c \in Clients |-> "Idle"]
    /\ kind = [c \in Clients |-> ""]
    /\ request = [c \in Clients |-> NoRequest]
    /\ prompt = [c \in Clients |-> <<>>]
    /\ dispatches = [c \in Clients |-> 0]
    /\ attempts = [c \in Clients |-> 0]
    /\ reply = [c \in Clients |-> NoContent]
    /\ result = [c \in Clients |-> JNone]
    /\ response = [c \in Clients |-> NoResponse]

Init ==
    /\ \E i \in 1..Len(DataFiles) : data_json = DataFiles[i]
    /\ server = "starting"
    /\ pangyo_terms = JNone
    /\ InitClients

\* Line 27, at import: pangyo_terms = load_pangyo_terms().  An exception
\* here ends the process before it serves anything.
Startup ==
    /\ server = "starting"
    /\ LET l == load_pangyo_terms(data_json)
       IN IF l.raised # ""
          THEN server' = "crashed" /\ pangyo_terms' = pangyo_terms
          ELSE server' = "running" /\ pangyo_terms' = l.v
    /\ UNCHANGED <<data_json, loop, pc, kind, request, prompt, dispatches,
                   attempts, reply, result, response>>

\* A client sends a request; it waits until the event loop takes it.
Arrive(c) ==
    /\ server = "running"
    /\ pc[c] = "Idle"
    /\ \E k \in {"translate", "health"} : kind' = [kind EXCEPT ![c] = k]
    /\ pc' = [pc EXCEPT ![c] = "Queued"]
    /\ UNCHANGED <<data_json, server, pangyo_terms, loop, request, prompt,
                   dispatches, attempts, reply, result, response>>

\* The event loop runs one coroutine at a time, and a handler that never
\* awaits keeps the loop until it returns or raises.
LoopFree == loop = 0

\* The handler returns or raises: FastAPI sends the response and the event
\* loop is free again.
Answer(c, resp) ==
    /\ response' = [response EXCEPT ![c] = resp]
    /\ pc' = [pc EXCEPT ![c] = "Responded"]
    /\ loop' = 0

\* Lines 162-164
health_check(c) ==
    /\ pc[c] = "Queued"
    /\ kind[c] = "health"
    /\ LoopFree
    /\ Answer(c, HealthResponse)
    /\ UNCHANGED <<data_json, server, pangyo_terms, kind, request, prompt,
                   dispatches, attempts, reply, result>>

\* Line 167: the event loop enters translate_text with the parsed body.
Enter(c, texts) ==
    /\ pc[c] = "Queued"
    /\ kind[c] = "translate"
    /\ LoopFree
    /\ \E text \in texts, direction \in Directions :
           request' = [request EXCEPT ![c] = [text |-> text, direction |-> direction]]
    /\ loop' = c
    /\ pc' = [pc EXCEPT ![c] = "Received"]
    /\ UNCHANGED <<data_json, server, pangyo_terms, kind, prompt, dispatches,
                   attempts, reply, result, response>>

\* Lines 175-179
Validate(c) ==
    /\ pc[c] = "Received"
    /\ IF TextIsBlank(request[c].text) THEN Answer(c, EmptyTextError)
       ELSE IF TextTooLong(request[c].text) THEN Answer(c, TooLongError)
       ELSE /\ pc' = [pc EXCEPT ![c] = "Validated"]
            /\ UNCHANGED <<loop, response>>
    /\ UNCHANGED <<data_json, server, pangyo_terms, kind, request, prompt,
                   dispatches, attempts, reply, result>>

\* Lines 181-182; an exception goes to the handler of lines 221-223.
BuildPrompt(c) ==
    /\ pc[c] = "Validated"
    /\ LET p == BuildPromptFor(pangyo_terms, request[c].direction, request[c].text)
       IN IF p.ok
          THEN /\ prompt' = [prompt EXCEPT ![c] = p.v]
               /\ pc' = [pc EXCEPT ![c] = "Prompted"]
               /\ UNCHANGED <<loop, response>>
          ELSE /\ Answer(c, GenericError(p.exc))
               /\ UNCHANGED prompt
    /\ UNCHANGED <<data_json, server, pangyo_terms, kind, request, dispatches,
                   attempts, reply, result>>

\* Line 184: the call of the synchronous client begins; the handler does
\* not await, so the event loop stays with this request until it returns.
Dispatch(c) ==
    /\ pc[c] = "Prompted"
    /\ pc' = [pc EXCEPT ![c] = "Dispatched"]
    /\ dispatches' = [dispatches EXCEPT ![c] = @ + 1]
    /\ UNCHANGED <<data_json, server, pangyo_terms, loop, kind, request, prompt,
                   attempts, reply, result, response>>

\* An attempt fails with a retryable error and the client has retries left.
ProviderRetry(c) ==
    /\ pc[c] = "Dispatched"
    /\ attempts[c] + 1 < MaxAttempts
    /\ attempts' = [attempts EXCEPT ![c] = @ + 1]
    /\ UNCHANGED <<data_json, server, pangyo_terms, loop, pc, kind, request,
                   prompt, dispatches, reply, result, response>>

\* An attempt fails for good (an error that is not retried, or no retry
\* left): the client raises, lines 221-223 answer.
ProviderRaise(c) ==
    /\ pc[c] = "Dispatched"
    /\ \E e \in TransientErrors \cup FatalErrors :
          /\ e \in TransientErrors => attempts[c] + 1 >= MaxAttempts
          /\ Answer(c, GenericError(e))
    /\ attempts' = [attempts EXCEPT ![c] = @ + 1]
    /\ UNCHANGED <<data_json, server, pangyo_terms, kind, request, prompt,
                   dispatches, reply, result>>

\* An attempt succeeds: the completion carries a content, or None.
ProviderReturn(c, replies) ==
    /\ pc[c] = "Dispatched"
    /\ attempts' = [attempts EXCEPT ![c] = @ + 1]
    /\ \E content \in {NoContent} \cup {Content(R) : R \in replies} :
           reply' = [reply EXCEPT ![c] = content]
    /\ pc' = [pc EXCEPT ![c] = "Returned"]
    /\ UNCHANGED <<data_json, server, pangyo_terms, loop, kind, request, prompt,
                   dispatches, result, response>>

\* Lines 194-207
Normalize(c) ==
    /\ pc[c] = "Returned"
    /\ IF ~reply[c].has
       THEN Answer(c, GenericError("AttributeError")) /\ UNCHANGED result
       ELSE LET r == ParseReply(reply[c].text)
            IN IF ~r.ok
               THEN Answer(c, ParseError) /\ UNCHANGED result
               ELSE /\ result' = [result EXCEPT ![c] = r.v]
                    /\ pc' = [pc EXCEPT ![c] = "Normalized"]
                    /\ UNCHANGED <<loop, response>>
    /\ UNCHANGED <<data_json, server, pangyo_terms, kind, request, prompt,
                   dispatches, attempts, reply>>

\* Lines 209-223
Respond(c) ==
    /\ pc[c] = "Normalized"
    /\ Answer(c, TranslateResponse(request[c], result[c]))
    /\ UNCHANGED <<data_json, server, pangyo_terms, kind, request, prompt,
                   dispatches, attempts, reply, result>>

\* The client has its response; its next request starts afresh.
Close(c) ==
    /\ pc[c] = "Responded"
    /\ pc' = [pc EXCEPT ![c] = "Idle"]
    /\ kind' = [kind EXCEPT ![c] = ""]
    /\ request' = [request EXCEPT ![c] = NoRequest]
    /\ prompt' = [prompt EXCEPT ![c] = <<>>]
    /\ dispatches' = [dispatches EXCEPT ![c] = 0]
    /\ attempts' = [attempts EXCEPT ![c] = 0]
    /\ reply' = [reply EXCEPT ![c] = NoContent]
    /\ result' = [result EXCEPT ![c] = JNone]
    /\ response' = [response EXCEPT ![c] = NoResponse]
    /\ UNCHANGED <<data_json, server, pangyo_terms, loop>>

\* One client, every text and every reply of the model.
Next ==
    \/ Startup
    \/ \E c \in {1} :
          \/ Arrive(c)
          \/ health_check(c)
          \/ Enter(c, Texts)
          \/ Validate(c)
          \/ BuildPrompt(c)
          \/ Dispatch(c)
          \/ ProviderRetry(c)
          \/ ProviderRaise(c)
          \/ ProviderReturn(c, Replies)
          \/ Normalize(c)
          \/ Respond(c)
          \/ Close(c)

Spec == Init /\ [][Next]_vars

\* Several clients at once, each a translate or a health request, with a few
\* texts and replies.
ConcTexts == {<<>>, <<Run("a", 1)>>}
ConcReplies ==
    { ObjectText(<<Member(kTranslated, Quoted(<<"a">>))>>), <<"a", " ", "b">> }

InitConc ==
    /\ \E i \in {1, Len(DataFiles)} : data_json = DataFiles[i]
    /\ server = "starting"
    /\ pangyo_terms = JNone
    /\ InitClients

NextConc ==
    \/ Startup
    \/ \E c \in Clients :
          \/ Arrive(c)
          \/ health_check(c)
          \/ Enter(c, ConcTexts)
          \/ Validate(c)
          \/ BuildPrompt(c)
          \/ Dispatch(c)
          \/ ProviderRetry(c)
          \/ ProviderRaise(c)
          \/ ProviderReturn(c, ConcReplies)
          \/ Normalize(c)
          \/ Respond(c)
          \/ Close(c)

SpecConc == InitConc /\ [][NextConc]_vars

\* ------------------------------------------------------------------------
\* The claims
\* ------------------------------------------------------------------------

Translate(c) == kind[c] = "translate"
Entered(c) == pc[c] \notin {"Idle", "Queued"}
Responded(c) == pc[c] = "Responded"

\* A text that is empty or holds whitespace only
Blank(text) == \A i \in 1..Len(text) : text[i].c \in {" ", "\n"}

\* C1: a translate request whose text is empty or whitespace only is
\* answered 400, for either direction: it never passes validation and its
\* response is never a 200 or a 500.
C1_BlankTextIs400 ==
    \A c \in Clients :
        Translate(c) /\ Entered(c) /\ Blank(request[c].text) =>
            /\ pc[c] \in {"Received", "Responded"}
            /\ Responded(c) => response[c].status = 400

C1_Witness ==
    \E c \in Clients :
        /\ Translate(c) /\ Responded(c)
        /\ request[c].text # <<>> /\ Blank(request[c].text)
        /\ request[c].direction = "to_korean"
        /\ response[c].status = 400

\* C2: the length limit is a boundary at exactly 1000 characters: a text of
\* 1001 characters or more is answered 400, and a non-blank text of 1000
\* characters passes validation and is dispatched to the provider.
C2_LengthBoundary ==
    \A c \in Clients :
        Translate(c) /\ Entered(c) =>
            /\ TextLen(request[c].text) >= 1001 /\ pc[c] # "Received" =>
                   Responded(c) /\ response[c].status = 400
            /\ ~Blank(request[c].text) /\ TextLen(request[c].text) = 1000
                   /\ Responded(c) =>
                   response[c].status # 400 /\ dispatches[c] = 1

\* C3: a translate request answered 200 has the request's direction in the
\* response's direction field and the request's text, verbatim, in its
\* original field, whatever the provider replied.
C3_EchoesRequest ==
    \A c \in Clients :
        Translate(c) /\ Responded(c) /\ response[c].status = 200 =>
            /\ response[c].direction = request[c].direction
            /\ response[c].original = request[c].text

C3_Witness ==
    \E c \in Clients :
        /\ Translate(c) /\ Responded(c) /\ response[c].status = 200
        /\ TextLen(request[c].text) = 1000
        /\ TextStrip(request[c].text) # request[c].text
        /\ response[c].translated # <<>>

\* JSON as RFC 8259 has it: what json.loads accepts of the alphabet, less the
\* NaN literal.
RECURSIVE HasNaN(_)
HasNaN(v) == v.t = "float" \/ \E i \in 1..Len(v.items) : HasNaN(v.items[i])
ValidJson(s) == json_loads(s).ok /\ ~HasNaN(json_loads(s).v)

\* C4: a provider reply that is not valid JSON after trimming and
\* fence-stripping ends with a 500 response, never with a 200.
C4_InvalidJsonIs500 ==
    \A c \in Clients :
        /\ Translate(c) /\ Responded(c) /\ reply[c].has
        /\ ~ValidJson(StripFence(Strip(reply[c].text)))
        => response[c].status = 500

\* Lines 194-217 as a function of the reply: translated and terms, or the
\* error.
NormalizerResult(content) ==
    LET r == ParseReply(content)
    IN IF ~r.ok
       THEN [error |-> "ParseError", translated |-> <<>>, terms |-> <<>>]
       ELSE [error |-> Extract(r.v).exc, translated |-> Extract(r.v).translated,
             terms |-> Extract(r.v).terms]

\* C5: for a reply R that is a JSON object, the normalizer's result for R
\* inside a markdown JSON fence equals its result for R itself, also when a
\* string value of R holds a fence marker.
C5_FenceIsTransparent ==
    \A c \in Clients :
        /\ pc[c] = "Returned" /\ reply[c].has
        /\ ValidJson(reply[c].text) /\ json_loads(reply[c].text).v.t = "dict"
        => NormalizerResult(Fenced(reply[c].text)) = NormalizerResult(reply[c].text)

\* A glossary: a JSON list of records with a term and a definition
IsGlossary(v) ==
    /\ v.t = "list"
    /\ \A i \in 1..Len(v.items) :
          /\ v.items[i].t = "dict"
          /\ IsIn(v.items[i].keys, kTerm) /\ IsIn(v.items[i].keys, kDefinition)
          /\ DictGet(v.items[i], kTerm, JNone).t = "str"
          /\ DictGet(v.items[i], kDefinition, JNone).t = "str"
Malformed(f) ==
    f.kind = "text" /\ ~(json_loads(f.content).ok /\ IsGlossary(json_loads(f.content).v))

\* C6: whatever the state of data.json, loading it raises no error at
\* startup, malformed content yields an empty list, and afterwards a valid
\* translate request gets its prompt built and sent.
C6_GlossaryNeverFatal ==
    /\ server # "crashed"
    /\ server = "running" /\ Malformed(data_json) => pangyo_terms = JList(<<>>)
    /\ \A c \in Clients :
          /\ Translate(c) /\ Responded(c)
          /\ ~Blank(request[c].text) /\ TextLen(request[c].text) <= 1000
          => dispatches[c] = 1

\* C7: a translate request whose provider call fails gets a 500 for itself
\* only, and while a request waits for the provider any other request that
\* has arrived can be handled.
C7_FailureIsIsolated ==
    \A c \in Clients :
        /\ Responded(c) /\ response[c].detail \in TransientErrors \cup FatalErrors
               => Translate(c) /\ attempts[c] >= 1
        /\ \A d \in Clients \ {c} :
               pc[c] = "Dispatched" /\ pc[d] = "Queued" =>
                   ENABLED (health_check(d) \/ Enter(d, ConcTexts))

\* The shape the prompt asks the provider for
StrOrAbsent(d, k) == IsIn(d.keys, k) => DictGet(d, k, JNone).t = "str"
DocumentedShape(v) ==
    /\ v.t = "dict"
    /\ StrOrAbsent(v, kTranslated)
    /\ IsIn(v.keys, kTerms) =>
          /\ DictGet(v, kTerms, JNone).t = "list"
          /\ \A i \in 1..Len(DictGet(v, kTerms, JNone).items) :
                LET e == DictGet(v, kTerms, JNone).items[i]
                IN /\ e.t = "dict"
                   /\ IsIn(e.keys, kTerm) /\ IsIn(e.keys, kMeaning)
                   /\ StrOrAbsent(e, kTerm) /\ StrOrAbsent(e, kMeaning)
                   /\ StrOrAbsent(e, kOriginal)

\* C8: every translate request ends with one HTTP response, and a reply that
\* is valid JSON but not of the documented shape yields a 500 with a detail
\* message, never a 200.
C8_BadShapeIs500 ==
    \A c \in Clients :
        Translate(c) /\ Responded(c) =>
            /\ response[c].status \in {200, 400, 500}
            /\ /\ reply[c].has /\ ParseReply(reply[c].text).ok
               /\ ~DocumentedShape(ParseReply(reply[c].text).v)
               => response[c].status = 500 /\ response[c].detail # ""

\* C9: for both directions the prompt sent to the provider holds the
\* instruction to treat instruction-like phrases of the user's text as data.
C9_GuardInBothPrompts ==
    \A c \in Clients :
        pc[c] \in {"Prompted", "Dispatched", "Returned", "Normalized", "Responded"}
            /\ prompt[c] # <<>> =>
            \E i \in 1..Len(prompt[c]) : prompt[c][i].lit = "#injection_guard"

\* The stage after a stage of the pipeline
Successor(stage) ==
    CASE stage = "Received" -> "Validated"
      [] stage = "Validated" -> "Prompted"
      [] stage = "Prompted" -> "Dispatched"
      [] stage = "Dispatched" -> "Returned"
      [] stage = "Returned" -> "Normalized"
      [] stage = "Normalized" -> "Responded"
      [] OTHER -> "Idle"

====
